---------------------------- MODULE Spec2Model ----------------------------
(***************************************************************************)
(* A model of the codex command-line client (src/codex/main.py): the main  *)
(* thread (main, interactive_chat, send_api_request under tenacity's       *)
(* retry decorator), the spinner thread, the remote API as a source of     *)
(* per-attempt outcomes and of response-body lines, and the user as a      *)
(* source of input lines and of one SIGINT.                                *)
(***************************************************************************)
EXTENDS Integers, Sequences, FiniteSets, TLC

(***************************************************************************)
(* Bounds of the model.                                                    *)
(***************************************************************************)
\* response-body lines delivered per response
MaxLines == 2
\* input() calls answered by the user in one interactive session
MaxTurns == 2
\* words of the prompts the token estimate is tabulated for
MaxWords == 100

(***************************************************************************)
(* Text.  A str is a sequence of tokens [c, n]: a whitespace character     *)
(* (n = 1), or a run of n copies of the word c separated by single blanks. *)
(***************************************************************************)
SP == [c |-> " ", n |-> 1]
NL == [c |-> "\n", n |-> 1]
Word(s) == [c |-> s, n |-> 1]
Run(k) == [c |-> "w", n |-> k]
EmptyStr == << >>

\* str.isspace for one token
IsSpace(t) == t.c \in {" ", "\n"}

\* len(text.split()): the maximal runs of non-whitespace characters
RECURSIVE SplitLen(_)
SplitLen(text) ==
    IF text = << >> THEN 0
    ELSE LET k == Len(text)
             t == text[k]
             rest == SubSeq(text, 1, k - 1)
         IN IF IsSpace(t) THEN SplitLen(rest)
            ELSE IF k > 1 /\ ~IsSpace(text[k - 1])
                 THEN SplitLen(rest) + t.n - 1
                 ELSE SplitLen(rest) + t.n

\* str.strip()
RECURSIVE LStrip(_)
LStrip(text) ==
    IF text # << >> /\ IsSpace(Head(text)) THEN LStrip(Tail(text)) ELSE text

RECURSIVE RStrip(_)
RStrip(text) ==
    IF text # << >> /\ IsSpace(text[Len(text)])
    THEN RStrip(SubSeq(text, 1, Len(text) - 1))
    ELSE text

\* a strip that removes nothing
Strip_Nothing(text) == text

Strip(text) == LStrip(RStrip(text))

\* " ".join(parts)
RECURSIVE Join(_)
Join(parts) ==
    IF parts = << >> THEN EmptyStr
    ELSE IF Len(parts) = 1 THEN parts[1]
    ELSE parts[1] \o <<SP>> \o Join(Tail(parts))

\* truth value of a str
Truthy(text) == text # EmptyStr

(***************************************************************************)
(* estimate_tokens: int(len(text.split()) * 1.33) in IEEE-754 binary64.    *)
(* 1.33 is the double 5989787504402760 * 2^-52; its 53-bit significand is  *)
(* held in three 18-bit limbs so that the exact product fits TLC's         *)
(* integers for word counts below 4096.                                    *)
(***************************************************************************)
Limb == 262144
SigHi == 87162
SigMid == 230686
SigLo == 188744

RECURSIVE BitLength(_)
BitLength(x) == IF x = 0 THEN 0 ELSE 1 + BitLength(x \div 2)

RECURSIVE Pow2(_)
Pow2(k) == IF k = 0 THEN 1 ELSE 2 * Pow2(k - 1)

\* a product rounded to the nearest integer instead of truncated
FloatMulTrunc_Rounded(n) == (n * 133 + 50) \div 100

\* int(n * 1.33): the exact product n * significand, rounded to nearest-even
\* at 53 significant bits, then truncated toward zero
FloatMulTrunc(n) ==
    LET p0 == n * SigLo
        r0 == p0 % Limb
        p1 == n * SigMid + (p0 \div Limb)
        r1 == p1 % Limb
        p2 == n * SigHi + (p1 \div Limb)
        \* product = p2 * 2^36 + r1 * 2^18 + r0, value = product / 2^52
        d == IF BitLength(p2) + 36 > 53 THEN BitLength(p2) + 36 - 53 ELSE 0
        roundsUp == /\ d >= 1
                    /\ p2 % 65536 = 65535
                    /\ r1 = Limb - 1
                    /\ r0 >= Limb - Pow2(d - 1)
    IN (p2 \div 65536) + (IF roundsUp THEN 1 ELSE 0)

estimate_tokens(text) == FloatMulTrunc(SplitLen(text))

MAX_TOKENS == 2048

\* the largest word count whose estimate is within MAX_TOKENS
EdgeWords == CHOOSE n \in 0 .. MAX_TOKENS :
                 /\ FloatMulTrunc(n) <= MAX_TOKENS
                 /\ FloatMulTrunc(n + 1) > MAX_TOKENS


(***************************************************************************)
(* Inputs of one run.                                                      *)
(***************************************************************************)
\* os.getenv of a variable that is not set
NoneVal == "<None>"
ApiKeys == {NoneVal, "", "sk"}

Q == <<Word("q")>>
Ctx == <<Word("ctx")>>
\* positional arguments (argparse nargs='*'): none, one word, one blank
\* argument, two arguments making EdgeWords words, one of EdgeWords+1 words
ArgLists == { << >>, <<Q>>, << <<SP>> >>, <<Q, <<Run(EdgeWords - 1)>> >>,
              << <<Run(EdgeWords + 1)>> >> }
\* what sys.stdin.read() returns: nothing, text, text with a final newline,
\* whitespace only
Stdins == { EmptyStr, Ctx, Ctx \o <<NL>>, <<SP, NL>> }
\* what input("You: ") returns
ChatLines == { EmptyStr, <<SP, SP>>, Q, <<Run(EdgeWords)>>,
               <<Run(EdgeWords + 1)>> }

(***************************************************************************)
(* The remote API.  One attempt of _call ends with a 2xx response, with a  *)
(* non-2xx response (raise_for_status raises HTTPError), with a transport  *)
(* failure (ConnectionError), or with another Exception raised before the  *)
(* request leaves (InvalidHeader).  A response body is a sequence of       *)
(* lines, each [kind, resp].                                               *)
(***************************************************************************)
Absent == "<absent>"
Null == "<null>"
Fragments == {"A", "B"}
BodyLines ==
    {[kind |-> k, resp |-> Absent] : k \in {"empty", "notjson", "scalar"}}
    \cup {[kind |-> "object", resp |-> r] : r \in Fragments \cup {Absent, Null}}

AttemptOutcomes == {"ok", "HTTPError", "ConnectionError", "InvalidHeader"}

VARIABLES
    api_key,        \* os.getenv('OLLAMA_API_KEY')
    args,           \* argparse namespace: [prompt, complete, chat]
    stdin,          \* the content of standard input (one-shot mode)
    pc,             \* position of the main thread
    prompt,         \* prompt_text of main / prompt of interactive_chat
    attempt_number, \* tenacity retry state: attempts started by this call
    last_exc,       \* tenacity retry state: exception of the last attempt
    calls,          \* calls of send_api_request so far
    posts,          \* requests.post calls made by the current call
    sent,           \* arguments of the last requests.post call
    lines,          \* lines of the current response delivered by iter_lines
    out,            \* standard output of the main thread for this request
    content,        \* content of main's buffered branch
    stop_event,     \* threading.Event shared with the spinner
    sp_pc,          \* position of the spinner thread
    sp_i,           \* index of the spinner's glyph in '|/-\\'
    sp_last,        \* the spinner's last write to the terminal
    stderr,         \* lines written to standard error
    exc,            \* the exception raised in the main thread, if any
    exit_code,      \* exit status once the main thread has unwound
    interrupted,    \* SIGINT was delivered
    turn            \* input() calls answered so far

vars == <<api_key, args, stdin, pc, prompt, calls, attempt_number, last_exc,
          posts, sent, lines, out, content, stop_event, sp_pc, sp_i, sp_last,
          stderr, exc, exit_code, interrupted, turn>>

inputs == <<api_key, args, stdin>>
request == <<calls, attempt_number, last_exc, posts, sent>>
response == <<lines, out, content>>
spin == <<stop_event, sp_pc, sp_i, sp_last>>

NoExc == "none"
Running == -1
NotSent == [prompt |-> EmptyStr, stream_flag |-> FALSE, stream_body |-> FALSE,
            posted |-> FALSE]

\* the process at its start: nothing computed, sent, printed or raised
Start ==
    /\ pc = "main"
    /\ prompt = EmptyStr
    /\ calls = 0
    /\ attempt_number = 0
    /\ last_exc = NoExc
    /\ posts = 0
    /\ sent = NotSent
    /\ lines = << >>
    /\ out = << >>
    /\ content = << >>
    /\ stop_event = FALSE
    /\ sp_pc = "unborn"
    /\ sp_i = 0
    /\ sp_last = "none"
    /\ stderr = << >>
    /\ exc = NoExc
    /\ exit_code = Running
    /\ interrupted = FALSE
    /\ turn = 0

Init ==
    /\ api_key \in ApiKeys
    /\ \E pr \in ArgLists, complete \in BOOLEAN, chat \in BOOLEAN :
         /\ args = [prompt |-> pr, complete |-> complete, chat |-> chat]
         /\ chat => pr = << >>
    /\ stdin \in Stdins
    /\ (args.chat \/ args.prompt \notin {<< >>, <<Q>>}) => stdin = EmptyStr
    /\ args.prompt = <<Q>> => stdin \in {EmptyStr, Ctx}
    /\ Start

(***************************************************************************)
(* Leaving the main thread.                                                *)
(***************************************************************************)
\* print(msg, file=sys.stderr); sys.exit(1)
ErrorExit(msg) ==
    /\ stderr' = Append(stderr, [tag |-> "Error", msg |-> msg])
    /\ exit_code' = 1
    /\ pc' = "shutdown"

\* an exception no handler catches: the traceback goes to standard error and
\* the interpreter exits with 1, or with 130 for KeyboardInterrupt
Uncaught(e) ==
    /\ stderr' = Append(stderr, [tag |-> "Traceback", msg |-> e])
    /\ exit_code' = IF e = "KeyboardInterrupt" THEN 130 ELSE 1
    /\ exc' = e
    /\ pc' = "shutdown"

(***************************************************************************)
(* main, lines 79-98.                                                      *)
(***************************************************************************)
\* a guard that tests only for a variable that is not set
CredentialMissing_NoneOnly(key) == key = NoneVal

\* `not api_key`
CredentialMissing(key) == key = NoneVal \/ key = ""

\* lines 79-82
MainCheckKey ==
    /\ pc = "main"
    /\ IF CredentialMissing(api_key)
       THEN ErrorExit("OLLAMA_API_KEY environment variable not set.")
       ELSE pc' = "mode" /\ UNCHANGED <<stderr, exit_code>>
    /\ UNCHANGED <<inputs, prompt, request, response, spin, exc, interrupted,
                   turn>>

\* lines 84-85 and 47: enter interactive_chat, or go on to the prompt
MainSelectMode ==
    /\ pc = "mode"
    /\ pc' = IF args.chat THEN "chat_input" ELSE "build"
    /\ UNCHANGED <<inputs, prompt, request, response, spin, stderr, exc,
                   exit_code, interrupted, turn>>

\* line 88: " ".join(args.prompt) or sys.stdin.read().strip()
PromptText(argv, input) ==
    IF Truthy(Join(argv)) THEN Join(argv) ELSE Strip(input)

\* lines 88-91
MainBuildPrompt ==
    /\ pc = "build"
    /\ prompt' = PromptText(args.prompt, stdin)
    /\ IF ~Truthy(prompt')
       THEN ErrorExit("No prompt provided.")
       ELSE pc' = "budget" /\ UNCHANGED <<stderr, exit_code>>
    /\ UNCHANGED <<inputs, request, response, spin, exc, interrupted, turn>>

\* a budget test that also rejects an estimate equal to the limit
OverBudget_Inclusive(text) == estimate_tokens(text) >= MAX_TOKENS

\* lines 93 and 54: estimate_tokens(prompt) > MAX_TOKENS
OverBudget(text) == estimate_tokens(text) > MAX_TOKENS

\* send_api_request lines 22-25: a fresh retry state for this call
EnterSendApiRequest ==
    /\ calls' = calls + 1
    /\ attempt_number' = 1
    /\ posts' = 0
    /\ last_exc' = NoExc
    /\ lines' = << >>
    /\ pc' = "call"

\* lines 93-98 and 101
MainCheckBudget ==
    /\ pc = "budget"
    /\ IF OverBudget(prompt)
       THEN /\ ErrorExit("Prompt exceeds MAX_TOKENS token limit.")
            /\ UNCHANGED <<calls, attempt_number, last_exc, posts, lines>>
       ELSE /\ EnterSendApiRequest
            /\ UNCHANGED <<stderr, exit_code>>
    /\ UNCHANGED <<inputs, prompt, sent, out, content, spin, exc, interrupted,
                   turn>>

(***************************************************************************)
(* Exceptions in the main thread.                                          *)
(***************************************************************************)
\* isinstance(e, Exception): KeyboardInterrupt is a BaseException only
IsException(e) == e # "KeyboardInterrupt"

\* raised inside main's try block (lines 100-128): `except Exception as e`
RaiseInMain(e) ==
    IF IsException(e)
    THEN exc' = e /\ pc' = "except" /\ UNCHANGED <<stderr, exit_code>>
    ELSE Uncaught(e)

\* an interactive_chat whose handler does not catch KeyboardInterrupt
RaiseInChat_NoHandler(e) == Uncaught(e)

\* raised inside interactive_chat's try block (lines 48-68), which main calls
\* outside its own: `except KeyboardInterrupt`
RaiseInChat(e) ==
    IF e = "KeyboardInterrupt"
    THEN exc' = e /\ pc' = "chat_kbd" /\ UNCHANGED <<stderr, exit_code>>
    ELSE Uncaught(e)

Raise(e) == IF args.chat THEN RaiseInChat(e) ELSE RaiseInMain(e)

(***************************************************************************)
(* send_api_request, lines 20-31, under                                    *)
(* @retry(stop=stop_after_attempt(3), wait=wait_fixed(2)).                 *)
(***************************************************************************)
\* line 97 and line 57: the stream argument of the call
StreamArg == IF args.chat THEN TRUE ELSE ~args.complete

\* tenacity's default retry=retry_if_exception_type(): any Exception
RetryIf(e) == IsException(e)

\* a stop condition that lets a fourth attempt through
StopAfterAttempt_Late(n) == n > 3

\* stop_after_attempt(3)
StopAfterAttempt(n) == n >= 3

\* a main that takes the spinner branch whatever the stream flag is
AfterCall_AlwaysSpin == IF args.chat THEN "chat_stream" ELSE "spawn"

\* where send_api_request returns to: line 58, line 103 or line 111
AfterCall ==
    IF args.chat THEN "chat_stream"
    ELSE IF StreamArg THEN "stream" ELSE "spawn"

\* what tenacity does with an attempt that raised e
AfterFailure(e) ==
    IF ~RetryIf(e) THEN Raise(e)
    ELSE IF StopAfterAttempt(attempt_number) THEN Raise("RetryError")
    ELSE pc' = "sleep" /\ UNCHANGED <<stderr, exc, exit_code>>

\* one attempt: lines 26-29 and the decision of the retry decorator
Attempt ==
    /\ pc = "call"
    /\ posts' = posts + 1
    /\ sent' = [prompt |-> prompt, stream_flag |-> StreamArg,
                stream_body |-> StreamArg, posted |-> TRUE]
    /\ \E o \in AttemptOutcomes :
         IF o = "ok"
         THEN /\ last_exc' = NoExc
              /\ pc' = AfterCall
              /\ UNCHANGED <<stderr, exc, exit_code>>
         ELSE /\ last_exc' = o
              /\ AfterFailure(o)
    /\ UNCHANGED <<inputs, prompt, calls, attempt_number, response, spin,
                   interrupted, turn>>

\* wait_fixed(2), then the next attempt
RetrySleep ==
    /\ pc = "sleep"
    /\ attempt_number' = attempt_number + 1
    /\ pc' = "call"
    /\ UNCHANGED <<inputs, prompt, calls, last_exc, posts, sent, response,
                   spin, stderr, exc, exit_code, interrupted, turn>>

(***************************************************************************)
(* Decoding one line of the body.                                          *)
(***************************************************************************)
\* sys.stdout.write / str +=: the empty string adds nothing
Write(text, s) == IF s = "" THEN text ELSE Append(text, s)

\* chunk.get("response", "") of json.loads(line); a JSON value that is not an
\* object has no get
ChunkGet(line) ==
    IF line.kind = "scalar" THEN [raised |-> "AttributeError", value |-> ""]
    ELSE IF line.resp = Absent THEN [raised |-> NoExc, value |-> ""]
    ELSE [raised |-> NoExc, value |-> line.resp]

\* str(value), as print applies it
Str(value) == IF value = Null THEN "None" ELSE value

\* lines 105-110: the body of main's streaming loop
MainPrintChunk(text, line) ==
    IF line.kind = "empty" THEN [out |-> text, raised |-> NoExc]
    ELSE IF line.kind = "notjson" THEN [out |-> text, raised |-> NoExc]
    ELSE LET got == ChunkGet(line)
         IN IF got.raised # NoExc THEN [out |-> text, raised |-> got.raised]
            ELSE [out |-> Write(text, Str(got.value)), raised |-> NoExc]

\* lines 59-64: the body of interactive_chat's loop
ChatPrintChunk(text, line) ==
    IF line.kind = "empty" THEN [out |-> text, raised |-> NoExc]
    ELSE IF line.kind = "notjson" THEN [out |-> text, raised |-> NoExc]
    ELSE LET got == ChunkGet(line)
         IN IF got.raised # NoExc THEN [out |-> text, raised |-> got.raised]
            ELSE [out |-> Write(text, Str(got.value)), raised |-> NoExc]

\* lines 117-122: the body of main's buffered loop; str + None is a TypeError
AccumChunk(text, line) ==
    IF line.kind = "empty" THEN [out |-> text, raised |-> NoExc]
    ELSE IF line.kind = "notjson" THEN [out |-> text, raised |-> NoExc]
    ELSE LET got == ChunkGet(line)
         IN IF got.raised # NoExc THEN [out |-> text, raised |-> got.raised]
            ELSE IF got.value = Null THEN [out |-> text, raised |-> "TypeError"]
            ELSE [out |-> Write(text, got.value), raised |-> NoExc]

(***************************************************************************)
(* main, lines 103-128.                                                    *)
(***************************************************************************)
\* the main thread returns from main: the interpreter exits with status 0
ReturnFromMain == exit_code' = 0 /\ pc' = "shutdown"

\* lines 104-110, one line of resp.iter_lines()
MainStreamLine ==
    /\ pc = "stream"
    /\ Len(lines) < MaxLines
    /\ \E line \in BodyLines :
         LET r == MainPrintChunk(out, line)
         IN /\ lines' = Append(lines, line)
            /\ out' = r.out
            /\ IF r.raised = NoExc
               THEN UNCHANGED <<pc, exc, stderr, exit_code>>
               ELSE RaiseInMain(r.raised)
    /\ UNCHANGED <<inputs, prompt, request, content, spin, interrupted, turn>>

\* line 104, the body is exhausted: the loop and main end
MainStreamEnd ==
    /\ pc = "stream"
    /\ ReturnFromMain
    /\ UNCHANGED <<inputs, prompt, request, response, spin, stderr, exc,
                   interrupted, turn>>

\* line 104, the connection breaks while the body is read
MainStreamBroken ==
    /\ pc = "stream"
    /\ RaiseInMain("ChunkedEncodingError")
    /\ UNCHANGED <<inputs, prompt, request, response, spin, interrupted, turn>>

\* lines 112-115
MainStartSpinner ==
    /\ pc = "spawn"
    /\ sp_pc' = "test"
    /\ content' = EmptyStr
    /\ pc' = "collect"
    /\ UNCHANGED <<inputs, prompt, request, lines, out, stop_event, sp_i,
                   sp_last, stderr, exc, exit_code, interrupted, turn>>

\* lines 116-122, one line of resp.iter_lines(); requests.post was called with
\* stream=False (line 27), so the body was read inside the attempt and the
\* iteration runs over bytes already in memory: it cannot break here
MainCollectLine ==
    /\ pc = "collect"
    /\ Len(lines) < MaxLines
    /\ \E line \in BodyLines :
         LET r == AccumChunk(content, line)
         IN /\ lines' = Append(lines, line)
            /\ content' = r.out
            /\ IF r.raised = NoExc
               THEN UNCHANGED <<pc, exc, stderr, exit_code>>
               ELSE RaiseInMain(r.raised)
    /\ UNCHANGED <<inputs, prompt, request, out, spin, interrupted, turn>>

\* line 116, the body is exhausted
MainCollectEnd ==
    /\ pc = "collect"
    /\ pc' = "set"
    /\ UNCHANGED <<inputs, prompt, request, response, spin, stderr, exc,
                   exit_code, interrupted, turn>>

\* line 123
MainSetStop ==
    /\ pc = "set"
    /\ stop_event' = TRUE
    /\ pc' = "join"
    /\ UNCHANGED <<inputs, prompt, request, response, sp_pc, sp_i, sp_last,
                   stderr, exc, exit_code, interrupted, turn>>

\* a join that does not wait for the thread
Joined_NoWait(thread_pc) == TRUE

\* Thread.join returns once the thread has ended
Joined(thread_pc) == thread_pc = "done"

\* line 124
MainJoin ==
    /\ pc = "join"
    /\ Joined(sp_pc)
    /\ pc' = "print"
    /\ UNCHANGED <<inputs, prompt, request, response, spin, stderr, exc,
                   exit_code, interrupted, turn>>

\* line 125, then main returns
MainPrintContent ==
    /\ pc = "print"
    /\ out' = out \o content \o <<"\n">>
    /\ ReturnFromMain
    /\ UNCHANGED <<inputs, prompt, request, lines, content, spin, stderr, exc,
                   interrupted, turn>>

\* lines 126-128
MainExcept ==
    /\ pc = "except"
    /\ ErrorExit(exc)
    /\ UNCHANGED <<inputs, prompt, request, response, spin, exc, interrupted,
                   turn>>

(***************************************************************************)
(* spinner, lines 34-42, on its own thread.                                *)
(***************************************************************************)
Glyphs == <<"|", "/", "-", "\\">>

\* line 36
SpinTest ==
    /\ sp_pc = "test"
    /\ sp_pc' = IF stop_event THEN "clear" ELSE "write"
    /\ sp_i' = 1
    /\ UNCHANGED <<inputs, pc, prompt, request, response, stop_event, sp_last,
                   stderr, exc, exit_code, interrupted, turn>>

\* lines 38-39
SpinWrite ==
    /\ sp_pc = "write"
    /\ sp_last' = Glyphs[sp_i]
    /\ sp_pc' = "wait"
    /\ UNCHANGED <<inputs, pc, prompt, request, response, stop_event, sp_i,
                   stderr, exc, exit_code, interrupted, turn>>

\* lines 40-41 and the end of the for loop
SpinWait ==
    /\ sp_pc = "wait"
    /\ IF stop_event \/ sp_i = Len(Glyphs)
       THEN sp_pc' = "test" /\ sp_i' = 1
       ELSE sp_pc' = "write" /\ sp_i' = sp_i + 1
    /\ UNCHANGED <<inputs, pc, prompt, request, response, stop_event, sp_last,
                   stderr, exc, exit_code, interrupted, turn>>

\* line 42, then the thread ends
SpinClear ==
    /\ sp_pc = "clear"
    /\ sp_last' = "clear"
    /\ sp_pc' = "done"
    /\ UNCHANGED <<inputs, pc, prompt, request, response, stop_event, sp_i,
                   stderr, exc, exit_code, interrupted, turn>>

\* the spinner thread exists and has not ended
SpinnerAlive == sp_pc \notin {"unborn", "done"}

(***************************************************************************)
(* interactive_chat, lines 45-68.                                          *)
(***************************************************************************)
\* lines 50-57: one input line, up to the call of send_api_request
ChatInput ==
    /\ pc = "chat_input"
    /\ turn < MaxTurns
    /\ turn' = turn + 1
    /\ \E text \in ChatLines :
         /\ prompt' = text
         /\ IF ~Truthy(Strip(text))
            THEN /\ out' = << >>
                 /\ UNCHANGED <<pc, calls, attempt_number, last_exc, posts,
                                lines>>
            ELSE IF OverBudget(text)
            THEN /\ out' = <<"Error: Prompt exceeds MAX_TOKENS token limit.",
                             "\n">>
                 /\ UNCHANGED <<pc, calls, attempt_number, last_exc, posts,
                                lines>>
            ELSE /\ out' = << >>
                 /\ EnterSendApiRequest
    /\ UNCHANGED <<inputs, sent, content, spin, stderr, exc, exit_code,
                   interrupted>>

\* lines 58-64, one line of resp.iter_lines()
ChatStreamLine ==
    /\ pc = "chat_stream"
    /\ Len(lines) < MaxLines
    /\ \E line \in BodyLines :
         LET r == ChatPrintChunk(out, line)
         IN /\ lines' = Append(lines, line)
            /\ out' = r.out
            /\ IF r.raised = NoExc
               THEN UNCHANGED <<pc, exc, stderr, exit_code>>
               ELSE RaiseInChat(r.raised)
    /\ UNCHANGED <<inputs, prompt, request, content, spin, interrupted, turn>>

\* line 65, the body is exhausted: back to the prompt
ChatStreamEnd ==
    /\ pc = "chat_stream"
    /\ out' = Append(out, "\n")
    /\ pc' = "chat_input"
    /\ UNCHANGED <<inputs, prompt, request, lines, content, spin, stderr, exc,
                   exit_code, interrupted, turn>>

\* line 58, the connection breaks while the body is read
ChatStreamBroken ==
    /\ pc = "chat_stream"
    /\ RaiseInChat("ChunkedEncodingError")
    /\ UNCHANGED <<inputs, prompt, request, response, spin, interrupted, turn>>

\* lines 66-68
ChatInterrupted ==
    /\ pc = "chat_kbd"
    /\ out' = Append(out, "Exiting chat mode.")
    /\ exit_code' = 0
    /\ pc' = "shutdown"
    /\ UNCHANGED <<inputs, prompt, request, lines, content, spin, stderr, exc,
                   interrupted, turn>>

(***************************************************************************)
(* The process.                                                            *)
(***************************************************************************)
\* where SIGINT raises KeyboardInterrupt in the main thread: its blocking
\* calls, and the loop over the body in memory (line 116)
Blocking == {"call", "sleep", "stream", "collect", "join", "chat_input",
             "chat_stream"}

\* the user sends SIGINT
Interrupt ==
    /\ pc \in Blocking
    /\ ~interrupted
    /\ interrupted' = TRUE
    /\ Raise("KeyboardInterrupt")
    /\ UNCHANGED <<inputs, prompt, request, response, spin, turn>>

\* after the main thread the interpreter joins every non-daemon thread
\* (threading._shutdown), then the process ends with exit_code
ProcessExit ==
    /\ pc = "shutdown"
    /\ ~SpinnerAlive
    /\ pc' = "exited"
    /\ UNCHANGED <<inputs, prompt, request, response, spin, stderr, exc,
                   exit_code, interrupted, turn>>

MainStep ==
    \/ MainCheckKey
    \/ MainSelectMode
    \/ MainBuildPrompt
    \/ MainCheckBudget
    \/ Attempt
    \/ RetrySleep
    \/ MainStreamLine
    \/ MainStreamEnd
    \/ MainStreamBroken
    \/ MainStartSpinner
    \/ MainCollectLine
    \/ MainCollectEnd
    \/ MainSetStop
    \/ MainJoin
    \/ MainPrintContent
    \/ MainExcept
    \/ ChatInput
    \/ ChatStreamLine
    \/ ChatStreamEnd
    \/ ChatStreamBroken
    \/ ChatInterrupted
    \/ ProcessExit

SpinnerStep == SpinTest \/ SpinWrite \/ SpinWait \/ SpinClear

Next == MainStep \/ SpinnerStep \/ Interrupt

Spec == Init /\ [][Next]_vars

\* the scheduler runs every thread that can take a step
FairSpec == Spec /\ WF_vars(MainStep) /\ WF_vars(SpinnerStep)

(***************************************************************************)
(* Properties.                                                             *)
(***************************************************************************)
TransportOrApi == {"ConnectionError", "HTTPError"}
Unwound == pc \in {"shutdown", "exited"}
OneShot == ~args.chat
Buffered == ~args.chat /\ args.complete
ExceedsMsg == "Prompt exceeds MAX_TOKENS token limit."
NoKeyMsg == "OLLAMA_API_KEY environment variable not set."

\* C1: one call of send_api_request makes at most 3 HTTP attempts; a further
\* attempt is made only after a failed one, so the call returns at the first
\* success; when it gives up (RetryError) it has made exactly 3 attempts and
\* the third failed.
C1_AtMostThreeAttempts ==
    /\ posts <= 3
    /\ attempt_number <= 3
    /\ pc = "call" => posts = attempt_number - 1
    /\ (pc \in {"call", "sleep"} /\ posts > 0) => last_exc # NoExc
    /\ (posts > 0 /\ last_exc = NoExc) =>
           (pc \notin {"call", "sleep"} /\ posts = attempt_number)
    /\ exc = "RetryError" => (posts = 3 /\ last_exc # NoExc)
    /\ (posts = 3 /\ last_exc # NoExc) => pc \notin {"call", "sleep"}

\* fail, fail, succeed: the response is returned after exactly 3 attempts
C1_Witness ==
    pc = "stream" /\ posts = 3 /\ last_exc = NoExc /\ exc = NoExc

\* C2: an attempt is retried only after a transport error or an API error;
\* any other exception of an attempt reaches the caller after one attempt.
C2_RetryOnlyTransportOrApi ==
    /\ pc = "sleep" => last_exc \in TransportOrApi
    /\ last_exc \notin TransportOrApi \cup {NoExc} => posts = 1

\* C3: when all 3 attempts failed, the error surfaced to the caller and
\* reported on standard error is the error of the last attempt itself.
C3_LastErrorSurfaced ==
    (posts = 3 /\ last_exc # NoExc /\ ~interrupted) =>
        /\ exc = last_exc
        /\ stderr # << >> => stderr[Len(stderr)].msg = last_exc

\* C4: with OLLAMA_API_KEY unset or empty the process reports the missing
\* credential and exits with status 1; no request is posted, no call of
\* send_api_request and no retry happens, whatever the mode.
C4_NoCredentialNoNetwork ==
    api_key \in {NoneVal, ""} =>
        /\ posts = 0 /\ calls = 0 /\ attempt_number = 0 /\ ~sent.posted
        /\ pc \in {"main", "shutdown", "exited"}
        /\ pc # "main" =>
               /\ exit_code = 1
               /\ stderr = <<[tag |-> "Error", msg |-> NoKeyMsg]>>

\* interactive mode, empty credential: the process has exited with status 1
C4_Witness ==
    /\ api_key = ""
    /\ args.chat
    /\ pc = "exited"
    /\ exit_code = 1
    /\ posts = 0

\* C5: a prompt is rejected as over budget iff its estimate exceeds
\* MAX_TOKENS; no request ever carries a rejected prompt and none is retried;
\* one-shot mode exits with status 1, interactive mode prints the error and
\* is back at the prompt.
C5_BudgetGate ==
    LET decided == IF args.chat THEN turn > 0 /\ Truthy(Strip(prompt))
                   ELSE pc \notin {"main", "mode", "build", "budget"}
                        /\ Truthy(prompt)
        over == estimate_tokens(prompt) > MAX_TOKENS
        rejectLine == [tag |-> "Error", msg |-> ExceedsMsg]
    IN /\ sent.posted => estimate_tokens(sent.prompt) <= MAX_TOKENS
       /\ (decided /\ over /\ OneShot) =>
              /\ Unwound /\ exit_code = 1 /\ stderr = <<rejectLine>>
              /\ calls = 0 /\ posts = 0
       /\ (decided /\ over /\ args.chat) =>
              /\ pc \in {"chat_input", "chat_kbd", "shutdown", "exited"}
              /\ out # << >> /\ out[1] = "Error: " \o ExceedsMsg
              /\ sent.prompt # prompt
       /\ (decided /\ ~over /\ OneShot) =>
              /\ calls = 1
              /\ \A i \in 1 .. Len(stderr) : stderr[i] # rejectLine
       /\ (decided /\ ~over /\ args.chat) =>
              /\ calls >= 1
              /\ (out = << >> \/ out[1] # "Error: " \o ExceedsMsg)
              /\ (posts > 0 => sent.prompt = prompt)

\* a prompt whose estimate equals MAX_TOKENS has been posted
C5_Witness ==
    /\ estimate_tokens(prompt) = MAX_TOKENS
    /\ sent.posted
    /\ sent.prompt = prompt

\* the fragments of the well-formed lines of a body, in order: a well-formed
\* line is a JSON object whose "response" is a string
RECURSIVE WellFormedText(_)
WellFormedText(body) ==
    IF body = << >> THEN EmptyStr
    ELSE LET line == Head(body)
         IN (IF line.kind = "object" /\ line.resp \in Fragments
             THEN <<line.resp>> ELSE << >>) \o WellFormedText(Tail(body))

\* exceptions a consumer raises because of what a line holds
LineFailures == {"AttributeError", "TypeError"}

\* C6: incremental consumption (one-shot streaming, or an interactive turn)
\* has printed exactly the fragments of the well-formed lines delivered so
\* far, in their order, and no line has stopped it.
C6_IncrementalEmitsWellFormed ==
    (StreamArg /\ calls > 0) =>
        /\ pc \in {"stream", "chat_stream"} => out = WellFormedText(lines)
        /\ exc \notin LineFailures

\* main's streaming loop and main's buffered loop run over a whole body
RECURSIVE IncrementalFold(_, _)
IncrementalFold(acc, body) ==
    IF body = << >> \/ acc.raised # NoExc THEN acc
    ELSE IncrementalFold(MainPrintChunk(acc.out, Head(body)), Tail(body))

RECURSIVE BufferedFold(_, _)
BufferedFold(acc, body) ==
    IF body = << >> \/ acc.raised # NoExc THEN acc
    ELSE BufferedFold(AccumChunk(acc.out, Head(body)), Tail(body))

Fresh == [out |-> EmptyStr, raised |-> NoExc]

\* C7: for a body read to its end, buffered consumption accumulates exactly
\* what incremental consumption prints: whichever of the two loops of main
\* ran to the end of the body, the other one, run over the same lines, ends
\* without an exception and with the same text.
C7_BufferedEqualsIncremental ==
    /\ (OneShot /\ ~args.complete /\ Unwound /\ exit_code = 0) =>
           BufferedFold(Fresh, lines) = [out |-> out, raised |-> NoExc]
    /\ (Buffered /\ pc \in {"set", "join", "print"}) =>
           IncrementalFold(Fresh, lines) = [out |-> content, raised |-> NoExc]

\* C8: in buffered mode the content is printed once, and only when the
\* spinner thread has seen the stop flag, written its clearing output and
\* ended; the spinner writes nothing afterwards.
C8_PrintAfterSpinnerEnds ==
    Buffered =>
        /\ out # << >> =>
               /\ out = content \o <<"\n">>
               /\ stop_event
               /\ sp_pc = "done"
               /\ sp_last = "clear"
        /\ (Unwound /\ exit_code = 0) => out = content \o <<"\n">>

\* the fragments A and B were collected and printed after the spinner ended
C8_Witness ==
    /\ Buffered
    /\ pc = "exited"
    /\ exit_code = 0
    /\ content = <<"A", "B">>
    /\ out = <<"A", "B", "\n">>
    /\ sp_last = "clear"

\* C9: in one-shot mode an error caught by main's handler is followed by the
\* end of the whole process with a non-zero status and one error line.
C9_ErrorsTerminate ==
    (OneShot /\ pc = "except")
        ~> (pc = "exited" /\ exit_code # 0 /\ Len(stderr) = 1)

\* C10: when SIGINT has unwound the main thread in buffered mode after the
\* spinner was started, the stop flag is set, and the spinner has ended once
\* the process has exited.
C10_InterruptStopsSpinner ==
    (Buffered /\ interrupted /\ Unwound /\ sp_pc # "unborn") =>
        /\ stop_event
        /\ pc = "exited" => sp_pc = "done"

\* C11: in interactive mode a turn whose dispatch failed after its retries,
\* or whose response stream broke while being read, does not end the
\* session: the loop is still running.
C11_FailedTurnIsolated ==
    (args.chat /\ exc \in {"RetryError", "ChunkedEncodingError"}) => ~Unwound

Notice == "Exiting chat mode."

RECURSIVE Count(_, _)
Count(seq, x) ==
    IF seq = << >> THEN 0
    ELSE (IF Head(seq) = x THEN 1 ELSE 0) + Count(Tail(seq), x)

\* C12: in interactive mode, once SIGINT has arrived (at the input read, in a
\* dispatch or its retry wait, or in the response iteration) the session is
\* in its KeyboardInterrupt handler or past it; past it the notice has been
\* printed exactly once, nothing went to standard error and the exit status
\* is 0.
C12_InterruptExitsCleanly ==
    (args.chat /\ interrupted) =>
        /\ exc = "KeyboardInterrupt"
        /\ pc \in {"chat_kbd", "shutdown", "exited"}
        /\ pc = "chat_kbd" => Count(out, Notice) = 0
        /\ Unwound =>
               /\ exit_code = 0
               /\ Count(out, Notice) = 1
               /\ stderr = << >>

\* second turn, SIGINT during the response iteration after fragment A
C12_Witness ==
    /\ args.chat
    /\ turn = 2
    /\ calls = 2
    /\ interrupted
    /\ pc = "exited"
    /\ exit_code = 0
    /\ out = <<"A", Notice>>

\* a str that is empty or holds only whitespace
Blank(text) == \A i \in 1 .. Len(text) : text[i].c \in {" ", "\n"}

\* C13: in interactive mode each input line adds one dispatch iff it is
\* non-blank and within budget, and only an input line adds a dispatch; a
\* blank line posts nothing and leads straight back to the prompt.
C13_BlankNeverDispatches ==
    [][ args.chat =>
          /\ calls' # calls => turn' = turn + 1
          /\ turn' = turn + 1 =>
                /\ calls' = calls +
                       (IF ~Blank(prompt')
                           /\ estimate_tokens(prompt') <= MAX_TOKENS
                        THEN 1 ELSE 0)
                /\ Blank(prompt') =>
                       /\ pc' = "chat_input"
                       /\ posts' = posts
                       /\ sent' = sent ]_vars

\* a whitespace-only line read after a dispatched turn: still one dispatch
C13_Witness ==
    /\ args.chat
    /\ turn = 2
    /\ prompt = <<SP, SP>>
    /\ calls = 1
    /\ pc = "chat_input"

\* a body none of whose lines carries a fragment: empty lines, lines that
\* are not JSON, objects without a "response"
ZeroFragmentBody(body) ==
    \A i \in 1 .. Len(body) :
        \/ body[i].kind \in {"empty", "notjson"}
        \/ body[i].kind = "object" /\ body[i].resp = Absent

Placeholder == "No response"

\* C14: for a body that yields zero fragments, buffered mode has printed the
\* placeholder, once, when it ends, incremental mode prints nothing, and
\* neither ends with an error because of it.
C14_EmptyCompletion ==
    (OneShot /\ calls > 0 /\ ZeroFragmentBody(lines)) =>
        /\ (args.complete /\ Unwound /\ exit_code = 0) =>
               out = <<Placeholder, "\n">>
        /\ ~args.complete => out = << >>
        /\ exc \notin LineFailures

\* C15: in one-shot mode the prompt that is posted is standard input, a blank
\* line, then the arguments when both are present, and the one that is
\* present otherwise.
C15_PromptConcatenation ==
    (OneShot /\ sent.posted) =>
        LET argument == Join(args.prompt)
            piped == RStrip(LStrip(stdin))
        IN IF Truthy(argument) /\ Truthy(piped)
           THEN sent.prompt = piped \o <<NL, NL>> \o argument
           ELSE IF Truthy(argument) THEN sent.prompt = argument
           ELSE sent.prompt = piped

(***************************************************************************)
(* The token estimate, tabulated: one-shot runs of main up to its budget   *)
(* test, over prompts of 0 .. MaxWords words and of the two word counts    *)
(* around the limit, given as one argument or as two.                      *)
(***************************************************************************)
EstArgLists ==
    { << >> }
    \cup { << <<Run(n)>> >> : n \in (1 .. MaxWords) \cup {EdgeWords, EdgeWords + 1} }
    \cup { <<Q, <<Run(n)>> >> : n \in 1 .. MaxWords }

EstInit ==
    /\ api_key = "sk"
    /\ \E pr \in EstArgLists :
         args = [prompt |-> pr, complete |-> FALSE, chat |-> FALSE]
    /\ stdin = EmptyStr
    /\ Start

EstNext ==
    \/ MainCheckKey
    \/ MainSelectMode
    \/ MainBuildPrompt
    \/ MainCheckBudget

EstSpec == EstInit /\ [][EstNext]_vars

\* the number of whitespace-separated words among the first i tokens
RECURSIVE WordsUpTo(_, _)
WordsUpTo(text, i) ==
    IF i = 0 THEN 0
    ELSE WordsUpTo(text, i - 1) +
         (IF text[i].c \in {" ", "\n"} THEN 0
          ELSE IF i > 1 /\ text[i - 1].c \notin {" ", "\n"}
               THEN text[i].n - 1
               ELSE text[i].n)

WordCount(text) == WordsUpTo(text, Len(text))

\* C16: estimate_tokens(P) = floor(wordcount(P) * 1.33) for the prompt of
\* every run, and the budget test decides by it.
C16_EstimateIsFloor ==
    pc \notin {"main", "mode", "build"} =>
        /\ estimate_tokens(prompt) = (WordCount(prompt) * 133) \div 100
        /\ (pc = "call" /\ calls = 1) =>
               (WordCount(prompt) * 133) \div 100 <= MAX_TOKENS
        /\ (Unwound /\ Truthy(prompt)) =>
               (WordCount(prompt) * 133) \div 100 > MAX_TOKENS

\* a prompt of 100 words, estimated at 133 tokens, has passed the budget test
C16_Witness ==
    /\ pc = "call"
    /\ WordCount(prompt) = 100
    /\ estimate_tokens(prompt) = 133

\* C17: a spinner thread exists only in one-shot buffered mode; while
\* fragments are printed incrementally (one-shot streaming, or any turn of an
\* interactive session) no spinner thread exists.
C17_NoSpinnerWhileStreaming ==
    /\ sp_pc # "unborn" => (Buffered /\ ~StreamArg)
    /\ pc \in {"stream", "chat_stream"} => (sp_pc = "unborn" /\ ~stop_event)
    /\ (StreamArg /\ out # << >>) => sp_last = "none"

\* second interactive turn, fragment A printed, no spinner thread
C17_Witness ==
    /\ args.chat
    /\ turn = 2
    /\ pc = "chat_stream"
    /\ out = <<"A">>
    /\ sp_pc = "unborn"

\* C18: every request posted asks the transport for a streamed body,
\* whatever the logical stream flag of the call.
C18_TransportAlwaysStreams ==
    sent.posted => sent.stream_body

\* C19: every request posted carries a prompt that is non-empty after
\* trimming and whose estimate is at most MAX_TOKENS.
C19_PostedPromptValid ==
    sent.posted =>
        /\ ~Blank(sent.prompt)
        /\ estimate_tokens(sent.prompt) <= MAX_TOKENS

\* C20: no line is fatal: a line that is not JSON, a JSON value that is not
\* an object and an object without a "response" string add nothing to what
\* the streaming loop, the buffered loop or the interactive loop has
\* gathered, and none of them makes the consumer raise.
C20_NoLineIsFatal ==
    /\ exc \notin LineFailures
    /\ pc = "stream" => out = WellFormedText(lines)
    /\ pc = "chat_stream" => out = WellFormedText(lines)
    /\ pc \in {"collect", "set", "join", "print"} =>
           content = WellFormedText(lines)
    /\ (calls > 0 /\ lines # << >> /\ Unwound /\ exc = NoExc) => exit_code = 0

=============================================================================
